---- MODULE Spec2Model ----
(***************************************************************************)
(* The notes store of pocket-pal (src/src/notes.py) and the note command   *)
(* handlers that drive it (src/src/actions_notes.py).                      *)
(*                                                                         *)
(* A Python str is a sequence of one-character strings, a list is a        *)
(* sequence, a set is a set.  The NoteBook's dict is the sequence of its   *)
(* Note values in insertion order; the key of an entry is the title the    *)
(* Note was built with (NoteBook.add is the only writer of the dict).      *)
(* Note.creation_date is written once by the constructor and read by no    *)
(* operation; it is not part of the state.                                 *)
(***************************************************************************)
EXTENDS Naturals, Sequences, FiniteSets

\* notes:  the NoteBook (its dict), as main() holds it.
\* before: the NoteBook as the last call found it.
\* last:   the last call, how it ended and the object it returned or raised.
\* prior:  the call before the last one when that was an add_tag that
\*         returned, NoCall otherwise.
VARIABLES notes, before, last, prior

vars == <<notes, before, last, prior>>

\* ------------------------------------------------------------------ bounds
\* Stored notes, plus characters of their bodies, plus their tags.
MaxSize == 5

\* ------------------------------------------------------------ Python values
None == [type |-> "NoneType"]

PyList(items) == [type |-> "list", items |-> items]

PySet(elems) == [type |-> "set", elems |-> elems]

NoteRef(note) == [type |-> "Note", note |-> note]

Exception(cls) == [type |-> cls]

\* Truth value of an object in a boolean context.
Truthy(v) ==
    CASE v.type = "NoneType" -> FALSE
      [] v.type = "list" -> v.items # <<>>
      [] v.type = "set" -> v.elems # {}
      [] OTHER -> TRUE

\* `x in container` for a list or a set.
Contains(v, x) ==
    CASE v.type = "list" -> \E i \in DOMAIN v.items : v.items[i] = x
      [] v.type = "set" -> x \in v.elems
      [] OTHER -> FALSE

\* `q in s` for two strings: q is a contiguous substring of s.
IsSubstr(q, s) ==
    \E i \in 0..Len(s) : i + Len(q) <= Len(s) /\ SubSeq(s, i + 1, i + Len(q)) = q

\* `x in xs` for a list held as a sequence.
InSeq(x, xs) == \E i \in DOMAIN xs : xs[i] = x

\* list.remove(x): drops the first occurrence of x.
RemoveFirst(xs, x) ==
    LET i == CHOOSE k \in DOMAIN xs : xs[k] = x /\ \A j \in 1..(k - 1) : xs[j] # x
    IN  SubSeq(xs, 1, i - 1) \o SubSeq(xs, i + 1, Len(xs))

Digit(k) == <<"0", "1", "2", "3", "4", "5", "6", "7", "8", "9">>[k + 1]

\* str(n) for a natural number.
RECURSIVE ToStr(_)
ToStr(n) == IF n < 10 THEN <<Digit(n)>> ELSE ToStr(n \div 10) \o <<Digit(n % 10)>>

\* f"note-{n}"
NoteTitle(n) == <<"n", "o", "t", "e", "-">> \o ToStr(n)

\* ------------------------------------------------------------------- inputs
sA == <<"a">>

sB == <<"b">>

sAB == <<"a", "b">>

Titles == {sAB, NoteTitle(1)}

Texts == {sA, sAB}

Tags == {sB, sAB}

Contacts == {sAB}

\* The contact names the add-note command is given.
Names == {sAB, sB}

Queries == {<<>>, sB, sAB}

TagArgs == {None, PyList(<<>>), PyList(<<sAB>>)}

ContactArgs == {None} \cup {PyList(<<c>>) : c \in Contacts} \cup {PySet({c}) : c \in Contacts}

\* --------------------------------------------------------------- class Note
Note_init(title, body, tags, contacts) ==
    [title |-> title,
     body |-> body,
     tags |-> IF Truthy(tags) THEN tags.items ELSE <<>>,
     contacts |-> IF Truthy(contacts) THEN contacts ELSE PySet({})]

Note_edit_NoSeparator(note, new_body) == [note EXCEPT !.body = note.body \o new_body]

Note_edit(note, new_body) == [note EXCEPT !.body = note.body \o <<" ">> \o new_body]

Note_replace(note, new_body) == [note EXCEPT !.body = new_body]

\* set.add on a set; a list has no attribute add.
Note_attach_to_contact(note, contact_name) ==
    IF note.contacts.type = "set"
    THEN [ok |-> TRUE,
          note |-> [note EXCEPT !.contacts = PySet(note.contacts.elems \cup {contact_name})]]
    ELSE [ok |-> FALSE, note |-> note]

Note_add_tag(note, tag) ==
    IF Len(tag) < 0 /\ Len(tag) > 20
    THEN [ok |-> FALSE, note |-> note]
    ELSE [ok |-> TRUE, note |-> [note EXCEPT !.tags = Append(note.tags, tag)]]

Note_remove_tag_All(note, tag) ==
    IF ~InSeq(tag, note.tags)
    THEN [ok |-> FALSE, note |-> note]
    ELSE [ok |-> TRUE, note |-> [note EXCEPT !.tags = SelectSeq(note.tags, LAMBDA t : t # tag)]]

Note_remove_tag(note, tag) ==
    IF ~InSeq(tag, note.tags)
    THEN [ok |-> FALSE, note |-> note]
    ELSE [ok |-> TRUE, note |-> [note EXCEPT !.tags = RemoveFirst(note.tags, tag)]]

\* ------------------------------------------------------ the dict of a NoteBook
Keys(d) == {d[i].title : i \in DOMAIN d}

Index(d, title) == CHOOSE i \in DOMAIN d : d[i].title = title

\* d[title]
Get(d, title) == d[Index(d, title)]

\* d[title] = note: a present key keeps its place, a new key goes last.
Put(d, title, note) ==
    IF title \in Keys(d) THEN [d EXCEPT ![Index(d, title)] = note] ELSE Append(d, note)

\* del d[title]
Del(d, title) ==
    LET i == Index(d, title) IN SubSeq(d, 1, i - 1) \o SubSeq(d, i + 1, Len(d))

\* What a call does: the dict it leaves, how it ends, and the object it
\* returns or raises.
Return(d, value) == [data |-> d, outcome |-> "returned", value |-> value]

Raise(d, cls) == [data |-> d, outcome |-> "raised", value |-> Exception(cls)]

\* ----------------------------------------------------------- class NoteBook
\* A list comprehension over self.data.values() is SelectSeq over the dict.
NoteBook_add_KeepExisting(d, title, body, tags, contacts) ==
    IF title \in Keys(d)
    THEN Return(d, None)
    ELSE Return(Put(d, title, Note_init(title, body, tags, contacts)), None)

NoteBook_add(d, title, body, tags, contacts) ==
    Return(Put(d, title, Note_init(title, body, tags, contacts)), None)

NoteBook_delete_Silent(d, title) ==
    IF title \notin Keys(d) THEN Return(d, None) ELSE Return(Del(d, title), None)

NoteBook_delete(d, title) ==
    IF title \notin Keys(d) THEN Raise(d, "KeyError") ELSE Return(Del(d, title), None)

\* The absent title is answered by returning the KeyError object.
NoteBook_edit(d, title, new_body) ==
    IF title \notin Keys(d)
    THEN Return(d, Exception("KeyError"))
    ELSE Return(Put(d, title, Note_edit(Get(d, title), new_body)), None)

NoteBook_replace(d, title, new_body) ==
    IF title \notin Keys(d)
    THEN Return(d, Exception("KeyError"))
    ELSE Return(Put(d, title, Note_replace(Get(d, title), new_body)), None)

NoteBook_attach_to_contact(d, title, contact_name) ==
    IF title \notin Keys(d)
    THEN Raise(d, "KeyError")
    ELSE LET r == Note_attach_to_contact(Get(d, title), contact_name)
         IN  IF r.ok THEN Return(Put(d, title, r.note), None) ELSE Raise(d, "AttributeError")

SearchMatch_AllSubstring(note, query) ==
    \/ IsSubstr(query, note.title)
    \/ IsSubstr(query, note.body)
    \/ \E i \in DOMAIN note.tags : IsSubstr(query, note.tags[i])
    \/ Contains(note.contacts, query)

SearchMatch(note, query) ==
    \/ IsSubstr(query, note.title)
    \/ IsSubstr(query, note.body)
    \/ InSeq(query, note.tags)
    \/ Contains(note.contacts, query)

NoteBook_search(d, query) ==
    IF query = <<>>
    THEN Return(d, PyList(d))
    ELSE LET P(note) == SearchMatch(note, query) IN Return(d, PyList(SelectSeq(d, P)))

\* self.data[title] raises KeyError for an absent title.
NoteBook_add_tag(d, title, tag) ==
    IF title \notin Keys(d)
    THEN Raise(d, "KeyError")
    ELSE LET r == Note_add_tag(Get(d, title), tag)
         IN  IF r.ok THEN Return(Put(d, title, r.note), None) ELSE Raise(d, "ValueError")

NoteBook_remove_tag(d, title, tag) ==
    IF title \notin Keys(d)
    THEN Raise(d, "KeyError")
    ELSE LET r == Note_remove_tag(Get(d, title), tag)
         IN  IF r.ok THEN Return(Put(d, title, r.note), None) ELSE Raise(d, "ValueError")

NoteBook_show_all(d) == Return(d, PyList(d))

\* dict.get(title)
NoteBook_find(d, title) ==
    IF title \in Keys(d) THEN Return(d, NoteRef(Get(d, title))) ELSE Return(d, None)

NoteBook_show_all_for_contact(d, contact_name) ==
    LET P(note) == Contains(note.contacts, contact_name)
    IN  IF ~\E i \in DOMAIN d : P(d[i])
        THEN Raise(d, "ValueError")
        ELSE Return(d, PyList(SelectSeq(d, P)))

NoteBook_find_by_tag(d, tag) ==
    LET P(note) == InSeq(tag, note.tags) IN Return(d, PyList(SelectSeq(d, P)))

\* The names class NoteBook defines; collections.UserDict, its base, adds the
\* mapping protocol and no __getattr__.
NoteBook_methods ==
    {"add", "delete", "edit", "replace", "attach_to_contact", "search", "add_tag",
     "remove_tag", "show_all", "find", "show_all_for_contact", "find_by_tag", "__repr__"}

UserDict_methods ==
    {"data", "keys", "values", "items", "get", "pop", "popitem", "clear", "update",
     "setdefault", "copy", "fromkeys"}

HasAttr(name) == name \in NoteBook_methods \cup UserDict_methods

\* ------------------------------------------------------- command handlers
\* A Note defines neither __bool__ nor __len__, so a found note is truthy.
\* The raise that ends the handler is outside the if.
delete_note(d, note_title) ==
    LET note_in_notebook == NoteBook_find(d, note_title).value
    IN  IF Truthy(note_in_notebook)
        THEN LET r == NoteBook_delete(d, note_title)
             IN  IF r.outcome = "raised" THEN r ELSE Raise(r.data, "NotFoundWarning")
        ELSE Raise(d, "NotFoundWarning")

\* notes_book.sort_by_tag is an attribute lookup on the NoteBook.
sort_by_tag(d, tag) ==
    IF HasAttr("sort_by_tag") THEN NoteBook_find_by_tag(d, tag) ELSE Raise(d, "AttributeError")

add_note(d, name, note) ==
    LET note_title == NoteTitle(Len(d) + 1)
        r1 == NoteBook_add(d, note_title, note, None, None)
        r2 == NoteBook_attach_to_contact(r1.data, note_title, name)
    IN  IF r2.outcome = "raised" THEN r2 ELSE Return(r2.data, None)

\* --------------------------------------------------------------- the machine
\* The titles a call may name: the fixed ones and every title in use.
TitleInputs == Titles \cup Keys(notes)

RECURSIVE Size(_)
Size(d) ==
    IF d = <<>> THEN 0 ELSE 1 + Len(Head(d).body) + Len(Head(d).tags) + Size(Tail(d))

NoCall == [name |-> "none"]

\* One call: `notes` becomes the dict it leaves, `before` the dict it found,
\* `last` the call with how it ended.
Call(c, r) ==
    /\ Size(r.data) <= MaxSize
    /\ notes' = r.data
    /\ before' = notes
    /\ last' = [call |-> c, outcome |-> r.outcome, value |-> r.value]
    /\ prior' = IF last.call.name = "add_tag" /\ last.outcome = "returned"
                THEN last.call
                ELSE NoCall

Init ==
    /\ notes = <<>>
    /\ before = <<>>
    /\ last = [call |-> [name |-> "NoteBook"], outcome |-> "returned", value |-> None]
    /\ prior = NoCall

Add ==
    \E title \in Titles, body \in Texts, tags \in TagArgs, contacts \in ContactArgs :
        Call([name |-> "add", title |-> title, body |-> body, tags |-> tags,
              contacts |-> contacts],
             NoteBook_add(notes, title, body, tags, contacts))

Delete ==
    \E title \in TitleInputs :
        Call([name |-> "delete", title |-> title], NoteBook_delete(notes, title))

Edit ==
    \E title \in TitleInputs, new_body \in Texts :
        Call([name |-> "edit", title |-> title, new_body |-> new_body],
             NoteBook_edit(notes, title, new_body))

Replace ==
    \E title \in TitleInputs, new_body \in Texts :
        Call([name |-> "replace", title |-> title, new_body |-> new_body],
             NoteBook_replace(notes, title, new_body))

AttachToContact ==
    \E title \in TitleInputs, contact_name \in Contacts :
        Call([name |-> "attach_to_contact", title |-> title, contact_name |-> contact_name],
             NoteBook_attach_to_contact(notes, title, contact_name))

Search ==
    \E query \in Queries :
        Call([name |-> "search", query |-> query], NoteBook_search(notes, query))

AddTag ==
    \E title \in TitleInputs, tag \in Tags :
        Call([name |-> "add_tag", title |-> title, tag |-> tag],
             NoteBook_add_tag(notes, title, tag))

RemoveTag ==
    \E title \in TitleInputs, tag \in Tags :
        Call([name |-> "remove_tag", title |-> title, tag |-> tag],
             NoteBook_remove_tag(notes, title, tag))

ShowAll == Call([name |-> "show_all"], NoteBook_show_all(notes))

Find ==
    \E title \in TitleInputs :
        Call([name |-> "find", title |-> title], NoteBook_find(notes, title))

ShowAllForContact ==
    \E contact_name \in Contacts :
        Call([name |-> "show_all_for_contact", contact_name |-> contact_name],
             NoteBook_show_all_for_contact(notes, contact_name))

FindByTag ==
    \E tag \in Tags :
        Call([name |-> "find_by_tag", tag |-> tag], NoteBook_find_by_tag(notes, tag))

DeleteNote ==
    \E note_title \in TitleInputs :
        Call([name |-> "delete_note", title |-> note_title], delete_note(notes, note_title))

SortByTag ==
    \E tag \in Tags :
        Call([name |-> "sort_by_tag", tag |-> tag], sort_by_tag(notes, tag))

AddNote ==
    \E name \in Names, note \in Texts :
        Call([name |-> "add_note", contact_name |-> name, body |-> note],
             add_note(notes, name, note))

Next ==
    \/ Add
    \/ Delete
    \/ Edit
    \/ Replace
    \/ AttachToContact
    \/ Search
    \/ AddTag
    \/ RemoveTag
    \/ ShowAll
    \/ Find
    \/ ShowAllForContact
    \/ FindByTag
    \/ DeleteNote
    \/ SortByTag

Spec == Init /\ [][Next]_vars

\* The add-note command and deletions alone, from the empty NoteBook; add_note
\* is NoteBook.add followed by NoteBook.attach_to_contact, which Next has.
NextNotes ==
    \/ AddNote
    \/ Delete
    \/ DeleteNote

SpecNotes == Init /\ [][NextNotes]_vars

\* ------------------------------------------------------------------ claims
Called(name) == last.call.name = name

Present == last.call.title \in Keys(before)

Returned(value) == last.outcome = "returned" /\ last.value = value

Raised(cls) == last.outcome = "raised" /\ last.value.type = cls

\* The entries of d under titles other than `title`, in store order.
OthersOf(d, title) == SelectSeq(d, LAMBDA note : note.title # title)

Count(xs, x) == Len(SelectSeq(xs, LAMBDA y : y = x))

\* C1: edit and replace on a title that is not a key raise a not-found error
\* (the call does not complete normally) and leave the store unchanged.
C1_EditReplaceAbsentRaises ==
    ((Called("edit") \/ Called("replace")) /\ ~Present) =>
        (Raised("KeyError") /\ notes = before)

\* C2: on a title that is not a key, find returns absent without failing, and
\* delete, attach_to_contact, add_tag and remove_tag raise a not-found error;
\* the store is unchanged in each case.
C2_AbsentTitle ==
    /\ (Called("find") /\ ~Present) => (Returned(None) /\ notes = before)
    /\ ((Called("delete") \/ Called("attach_to_contact") \/ Called("add_tag")
            \/ Called("remove_tag")) /\ ~Present) =>
           (Raised("KeyError") /\ notes = before)

C2_Witness ==
    /\ before # <<>>
    /\ Called("add_tag")
    /\ ~Present
    /\ Raised("KeyError")

\* The note under the title of the last call is in what find_by_tag returns
\* for the tag of the last call.
TagFindsNote ==
    InSeq(Get(notes, last.call.title), NoteBook_find_by_tag(notes, last.call.tag).value.items)

\* The last call is a remove_tag that returned, directly after an add_tag of
\* the same tag to the same note.
RemovedAfterAdd ==
    /\ Called("remove_tag")
    /\ last.outcome = "returned"
    /\ prior.name = "add_tag"
    /\ prior.title = last.call.title
    /\ prior.tag = last.call.tag

\* C3 as stated: after add_tag(T, g), find_by_tag(g) includes T; after a
\* following successful remove_tag(T, g), find_by_tag(g) does not include T.
C3_RemoveExcludes ==
    /\ (Called("add_tag") /\ last.outcome = "returned") => TagFindsNote
    /\ RemovedAfterAdd => ~TagFindsNote

\* C3 amended: after add_tag(T, g), find_by_tag(g) includes T; after a
\* following successful remove_tag(T, g), find_by_tag(g) excludes T exactly
\* when g occurred once in T's tags at the removal (T did not carry g before
\* the add_tag), and still includes T otherwise.
C3_RemoveExcludesSingle ==
    /\ (Called("add_tag") /\ last.outcome = "returned") => TagFindsNote
    /\ RemovedAfterAdd =>
           (TagFindsNote <=> Count(Get(before, last.call.title).tags, last.call.tag) > 1)

C3_Witness ==
    /\ RemovedAfterAdd
    /\ ~TagFindsNote
    /\ Get(notes, last.call.title).tags # <<>>

\* C4: on an existing title with body y, edit(T, x) leaves the body y, one
\* space, x, and replace(T, x) leaves the body x; title, tags and contacts of
\* T, the key set and every other note are unchanged.
C4_EditReplaceBody ==
    ((Called("edit") \/ Called("replace")) /\ Present) =>
        LET T == last.call.title
            x == last.call.new_body
            y == Get(before, T).body
        IN  /\ Returned(None)
            /\ Called("edit") => Get(notes, T).body = y \o <<" ">> \o x
            /\ Called("replace") => Get(notes, T).body = x
            /\ Get(notes, T).title = T
            /\ Get(notes, T).tags = Get(before, T).tags
            /\ Get(notes, T).contacts = Get(before, T).contacts
            /\ [i \in DOMAIN notes |-> notes[i].title] = [i \in DOMAIN before |-> before[i].title]
            /\ OthersOf(notes, T) = OthersOf(before, T)

C4_Witness ==
    /\ Called("edit")
    /\ Present
    /\ Get(before, last.call.title).tags # <<>>
    /\ Get(before, last.call.title).contacts.type = "list"
    /\ Get(notes, last.call.title).body # Get(before, last.call.title).body

\* C5: on a note in the store, however it was created, attach_to_contact(T, c)
\* succeeds and puts c in T's contacts; a second attach_to_contact(T, c) leaves
\* the store as the first left it, with c once in T's contacts.
C5_AttachIdempotent ==
    (Called("attach_to_contact") /\ Present) =>
        LET T == last.call.title
            c == last.call.contact_name
        IN  /\ Returned(None)
            /\ Get(notes, T).contacts.type = "set"
            /\ c \in Get(notes, T).contacts.elems
            /\ NoteBook_attach_to_contact(notes, T, c) = Return(notes, None)

\* C6: add(T, B, tags?, contacts?) never fails, also on a title in use;
\* afterwards there is one entry for T, find(T) is a note with title T, body
\* B and the supplied tags and contacts (empty when not supplied), and every
\* entry under another title is unchanged.
C6_AddOverwrites ==
    Called("add") =>
        LET T == last.call.title
            found == NoteBook_find(notes, T).value
        IN  /\ Returned(None)
            /\ Cardinality({i \in DOMAIN notes : notes[i].title = T}) = 1
            /\ found.type = "Note"
            /\ found.note.title = T
            /\ found.note.body = last.call.body
            /\ found.note.tags =
                   (IF last.call.tags.type = "NoneType" THEN <<>> ELSE last.call.tags.items)
            /\ found.note.contacts =
                   (IF last.call.contacts.type = "NoneType" THEN PySet({}) ELSE last.call.contacts)
            /\ OthersOf(notes, T) = OthersOf(before, T)

C6_Witness ==
    /\ Called("add")
    /\ Present
    /\ Len(before) > 1
    /\ Get(before, last.call.title).tags # <<>>
    /\ last.call.tags.type = "NoneType"

\* An element of the note's tags or of its contacts equals q.
ExactTagOrContact(note, q) ==
    \/ \E i \in DOMAIN note.tags : note.tags[i] = q
    \/ note.contacts.type = "set" /\ q \in note.contacts.elems
    \/ note.contacts.type = "list" /\ \E i \in DOMAIN note.contacts.items : note.contacts.items[i] = q

\* C7: search("") returns every note in store order; search(q) for a
\* non-empty q returns exactly the notes with q a contiguous substring of the
\* title or of the body, or equal to one of the tags or contacts; the store
\* is unchanged.
C7_Search ==
    Called("search") =>
        LET q == last.call.query
        IN  /\ last.outcome = "returned"
            /\ last.value.type = "list"
            /\ notes = before
            /\ q = <<>> => last.value.items = notes
            /\ q # <<>> =>
                   last.value.items =
                       SelectSeq(notes, LAMBDA note :
                           \/ IsSubstr(q, note.title)
                           \/ IsSubstr(q, note.body)
                           \/ ExactTagOrContact(note, q))

\* A search for "b" that returns one note and leaves out another whose only
\* tag is "ab".
C7_Witness ==
    /\ Called("search")
    /\ last.call.query = sB
    /\ last.value.items # <<>>
    /\ \E i \in DOMAIN notes :
           /\ notes[i].tags = <<sAB>>
           /\ ~InSeq(notes[i], last.value.items)

\* C8: sort_by_tag(g) is an operation of the store returning what
\* find_by_tag(g) returns; the sort-by-tag handler completes and leaves the
\* store unchanged.
C8_SortByTagIsFindByTag ==
    Called("sort_by_tag") =>
        /\ Returned(NoteBook_find_by_tag(before, last.call.tag).value)
        /\ notes = before

\* C9: after add-note commands and deletions from the empty store, each
\* add-note command stores its note under a title that was not a key: the
\* store grows by one note and every note stored before is still there.
C9_AddNoteFreshTitle ==
    Called("add_note") =>
        /\ NoteTitle(Len(before) + 1) \notin Keys(before)
        /\ Len(notes) = Len(before) + 1
        /\ \A i \in DOMAIN before : InSeq(before[i], notes)

\* C10: delete_note raises NotFoundWarning exactly when the title is not a
\* key; on a title in use it removes that entry alone and completes, on any
\* other it leaves the store unchanged.
C10_DeleteNoteRaisesIffAbsent ==
    Called("delete_note") =>
        /\ Raised("NotFoundWarning") <=> ~Present
        /\ Present => (Returned(None) /\ notes = OthersOf(before, last.call.title))
        /\ ~Present => notes = before

====
